---- MODULE Spec2Model ----
(***************************************************************************)
(* Matching and coarsening of the Mongoose multilevel edge separator.      *)
(*                                                                         *)
(* One run of the model is the sequence                                    *)
(*     initialize(G, O); match(G, O); C = coarsen(G, O);                   *)
(* of MATLAB/mongoose_coarsen_mex.cpp, followed by one guess on the coarse *)
(* graph and one projection of its partition to the fine graph.  The fine  *)
(* graph, the options and the allocator's behaviour are the inputs.        *)
(*                                                                         *)
(* Vertices, column pointers and coarse ids are 0-based as in the source;  *)
(* arrays are functions on 0..len-1.  Weights are integers, so every sum   *)
(* is exact.  The debug ASSERTs are recorded in the ghost variable         *)
(* asserts (the labels of the assertions that would fire) and execution    *)
(* continues as in a build without them.                                   *)
(*                                                                         *)
(* Specifications:                                                         *)
(*   Spec         match, coarsen, guess and projection (above)             *)
(*   SpecHEM      match() under HEM, also on graphs without edge weights   *)
(*   SpecQP       one call of QPLinks                                      *)
(*   SpecOptions  Options::Create and the sweep of the memory test         *)
(*   SpecCond     one call of conditionGraph                               *)
(***************************************************************************)
EXTENDS Integers, Sequences, FiniteSets, TLC

\* Bounds of the input space.
MaxN == 4
MaxEdges == 3

\* Values the inputs are drawn from.
EdgeWeights == {1, 2}
Strategies == {"Random", "HEM", "HEMPA", "HEMDavisPA"}
Thresholds == {1, 2}

VARIABLES
    graph,      \* the fine Graph G (CSR arrays and the matching arrays)
    options,    \* the Options O
    pc,         \* the code block about to run
    k,          \* the loop index of the block
    asserts,    \* ghost: labels of the assertions that have fired
    C,          \* the coarse graph being built by coarsen, or NULL
    htable,     \* coarsen's hash table, or NULL
    munch,      \* coarsen: number of coarse entries written
    X,          \* coarsen: running sum of edge weights
    heap,       \* ghost: blocks coarsen holds from the allocator
    nmalloc,    \* ghost: allocations coarsen has asked for since entry
    ret,        \* what coarsen returned: "none", "NULL" or "C"
    G0,         \* ghost: the fine graph as it was on entry to coarsen
    partition,  \* the fine graph's partition after projection, or NULL
    QP,         \* the QPDelta handed to QPLinks, or NULL
    links,      \* QPLinks' locals (s, nFreeSet) and its return value
    test,       \* the memory test's loop position (RunAllTests), or NULL
    cond        \* conditionGraph's locals and the storage they point to

vars == <<graph, options, pc, k, asserts, C, htable, munch, X, heap, nmalloc,
          ret, G0, partition, QP, links, test, cond>>

\* The state of the routines that are not part of the run at hand.
otherVars == <<QP, links, test, cond>>

NULL == << >>

----------------------------------------------------------------------------
\* The input graph: symmetric CSR storage, neighbours in increasing id order.

Pairs(n) == {e \in (0..(n-1)) \X (0..(n-1)) : e[1] < e[2]}

EdgeW(ew, u, v) ==
    IF u < v THEN ew[<<u, v>>] ELSE IF v < u THEN ew[<<v, u>>] ELSE 0

Nbrs(n, ew, v) == {u \in 0..(n-1) : EdgeW(ew, u, v) > 0}

RECURSIVE ColPtr(_, _, _)
ColPtr(n, ew, c) ==
    IF c = 0 THEN 0 ELSE ColPtr(n, ew, c - 1) + Cardinality(Nbrs(n, ew, c - 1))

\* The column that holds storage index q.
ColOf(p, n, q) == CHOOSE c \in 0..(n-1) : p[c] <= q /\ q < p[c + 1]

\* The r-th smallest element of S (r from 0).
Nth(S, r) == CHOOSE u \in S : Cardinality({t \in S : t < u}) = r

Pow2(v) == 2 ^ v

RECURSIVE SumTo(_, _)
SumTo(f, m) == IF m < 0 THEN 0 ELSE f[m] + SumTo(f, m - 1)

\* The Graph after readGraph and initialize: matching arrays zeroed, cn = 0,
\* singleton = -1, W the sum of the vertex weights.
MakeGraph(n, ew, w) ==
    LET p  == [c \in 0..n |-> ColPtr(n, ew, c)]
        nz == p[n]
        gi == [q \in 0..(nz-1) |->
                 LET c == ColOf(p, n, q) IN Nth(Nbrs(n, ew, c), q - p[c])]
        gx == [q \in 0..(nz-1) |-> EdgeW(ew, ColOf(p, n, q), gi[q])]
    IN  [n |-> n, nz |-> nz, p |-> p, i |-> gi, x |-> gx, w |-> w,
         W |-> SumTo(w, n - 1),
         cn |-> 0,
         matching    |-> [v \in 0..(n-1) |-> 0],
         matchmap    |-> [v \in 0..(n-1) |-> 0],
         invmatchmap |-> [v \in 0..(n-1) |-> 0],
         matchtype   |-> [v \in 0..(n-1) |-> "Orphan"],
         singleton |-> -1]

\* Vertex v weighs 2^v: the weights are positive and every sum of weights
\* names the set of vertices that was summed.
VertexWeights(n) == [v \in 0..(n-1) |-> Pow2(v)]

\* Every graph on 1..MaxN vertices with at most MaxEdges undirected edges,
\* each edge weighted from EdgeWeights.
InputGraphs ==
    UNION {
        {MakeGraph(n, ew, VertexWeights(n)) :
            ew \in {f \in [Pairs(n) -> {0} \cup EdgeWeights] :
                      Cardinality({e \in Pairs(n) : f[e] > 0}) <= MaxEdges}} :
        n \in 1..MaxN}

\* davisBrotherlyThreshold is read by matching_DavisPA only; under the other
\* strategies it stays at its default.
InputOptions ==
    {o \in [matchingStrategy : Strategies,
            doCommunityMatching : BOOLEAN,
            davisBrotherlyThreshold : Thresholds,
            doExpensiveChecks : {TRUE}] :
        o.matchingStrategy # "HEMDavisPA" => o.davisBrotherlyThreshold = 2}

----------------------------------------------------------------------------
\* Graph's matching primitives.

isMatched(g, v) == g.matching[v] > 0

getMatch(g, v) == g.matching[v] - 1

createMatch(g, a, b, t) ==
    LET m1 == [g.matching EXCEPT ![a] = b + 1]
        m2 == [m1 EXCEPT ![b] = a + 1]
        t1 == [g.matchtype EXCEPT ![a] = t]
        mm1 == [g.matchmap EXCEPT ![a] = g.cn]
    IN  [g EXCEPT !.matching = m2,
                  !.invmatchmap = [g.invmatchmap EXCEPT ![g.cn] = a],
                  !.matchtype = [t1 EXCEPT ![b] = t],
                  !.matchmap = [mm1 EXCEPT ![b] = g.cn],
                  !.cn = g.cn + 1]

createCommunityMatch(g, a, b, t) ==
    LET vm1 == getMatch(g, a)
        vm2 == getMatch(g, vm1)
        vm3 == getMatch(g, vm2)
        is3Way == (a = vm3)
    IN  IF is3Way
        THEN createMatch([g EXCEPT !.matching[vm1] = a + 1], vm2, b, t)
        ELSE LET m1 == [g.matching EXCEPT ![b] = g.matching[a]]
             IN  [g EXCEPT !.matching = [m1 EXCEPT ![a] = b + 1],
                           !.matchmap[b] = g.matchmap[a],
                           !.matchtype[b] = t]

degree(g, v) == g.p[v + 1] - g.p[v]

----------------------------------------------------------------------------
Init ==
    /\ graph \in InputGraphs
    /\ options \in InputOptions
    /\ pc = "match"
    /\ k = 0
    /\ asserts = {}
    /\ C = NULL
    /\ htable = NULL
    /\ munch = 0
    /\ X = 0
    /\ heap = {}
    /\ nmalloc = 0
    /\ ret = "none"
    /\ G0 = NULL
    /\ partition = NULL
    /\ QP = NULL
    /\ links = NULL
    /\ test = NULL
    /\ cond = NULL

coarsenVars == <<C, htable, munch, X, heap, nmalloc, ret, G0, partition>>

\* match(): the dispatch on options->matchingStrategy.
match ==
    /\ pc = "match"
    /\ pc' = IF options.matchingStrategy = "Random"
             THEN "matching_Random" ELSE "matching_HEM"
    /\ k' = 0
    /\ UNCHANGED <<otherVars, graph, options, asserts, coarsenVars>>

\* What match() calls after the routine that just returned.
AfterRoutine(routine) ==
    IF routine = "matching_HEM" /\ options.matchingStrategy = "HEMPA"
    THEN "matching_PA_entry"
    ELSE IF routine = "matching_HEM" /\ options.matchingStrategy = "HEMDavisPA"
    THEN "matching_DavisPA_entry"
    ELSE "matching_Cleanup"

\* The debug check closing matching_Random and matching_HEM: every vertex is
\* matched or has no unmatched neighbour.
MaximalMatching(g) ==
    \A v \in 0..(g.n - 1) :
        g.matching[v] = 0 =>
            \A q \in g.p[v]..(g.p[v + 1] - 1) : g.matching[g.i[q]] # 0

----------------------------------------------------------------------------
\* matching_Random

RECURSIVE FirstUnmatched(_, _, _)
FirstUnmatched(g, q, qend) ==
    IF q >= qend THEN -1
    ELSE IF isMatched(g, g.i[q]) THEN FirstUnmatched(g, q + 1, qend)
    ELSE g.i[q]

matching_Random_loop ==
    /\ pc = "matching_Random"
    /\ k < graph.n
    /\ LET nb == FirstUnmatched(graph, graph.p[k], graph.p[k + 1])
       IN  graph' = IF isMatched(graph, k) \/ nb = -1 THEN graph
                    ELSE createMatch(graph, k, nb, "Standard")
    /\ k' = k + 1
    /\ UNCHANGED <<otherVars, options, pc, asserts, coarsenVars>>

matching_Random_debug ==
    /\ pc = "matching_Random"
    /\ k = graph.n
    /\ asserts' = IF MaximalMatching(graph) THEN asserts
                  ELSE asserts \cup {"matching_Random:138"}
    /\ pc' = AfterRoutine("matching_Random")
    /\ k' = 0
    /\ UNCHANGED <<otherVars, graph, options, coarsenVars>>

----------------------------------------------------------------------------
\* matching_HEM

\* The scan of column k for the heaviest neighbour; onlyUnmatched is the
\* "consider only unmatched neighbors" test of matching_HEM, absent in
\* matching_PA.  hn/hw are heaviestNeighbor/heaviestWeight.
\* double x = (Gx) ? Gx[p] : 1: the weight of stored entry q, 1 when the
\* graph has no edge weights.
EdgeWeight(g, q) == IF g.x = NULL THEN 1 ELSE g.x[q]

\* One step of the scan for the heaviest neighbour: the pair <<neighbour,
\* weight>> kept after looking at entry q.
Heavier_orEqual(g, q, hn, hw) ==
    IF EdgeWeight(g, q) >= hw THEN <<g.i[q], EdgeWeight(g, q)>> ELSE <<hn, hw>>

Heavier(g, q, hn, hw) ==
    IF EdgeWeight(g, q) > hw THEN <<g.i[q], EdgeWeight(g, q)>> ELSE <<hn, hw>>

RECURSIVE Heaviest(_, _, _, _, _, _)
Heaviest(g, q, qend, hn, hw, onlyUnmatched) ==
    IF q >= qend THEN hn
    ELSE IF onlyUnmatched /\ isMatched(g, g.i[q])
    THEN Heaviest(g, q + 1, qend, hn, hw, onlyUnmatched)
    ELSE LET h == Heavier(g, q, hn, hw)
         IN  Heaviest(g, q + 1, qend, h[1], h[2], onlyUnmatched)

\* Mutant: the test that skips a matched neighbour is missing.
matching_HEM_loop_anyNeighbour ==
    /\ pc = "matching_HEM"
    /\ k < graph.n
    /\ LET hn == Heaviest(graph, graph.p[k], graph.p[k + 1], -1, -1, FALSE)
       IN  graph' = IF isMatched(graph, k) \/ hn = -1 THEN graph
                    ELSE createMatch(graph, k, hn, "Standard")
    /\ k' = k + 1
    /\ UNCHANGED <<otherVars, options, pc, asserts, coarsenVars>>

\* Mutant: heaviestWeight starts at 1 instead of -1.
matching_HEM_loop_fromOne ==
    /\ pc = "matching_HEM"
    /\ k < graph.n
    /\ LET hn == Heaviest(graph, graph.p[k], graph.p[k + 1], -1, 1, TRUE)
       IN  graph' = IF isMatched(graph, k) \/ hn = -1 THEN graph
                    ELSE createMatch(graph, k, hn, "Standard")
    /\ k' = k + 1
    /\ UNCHANGED <<otherVars, options, pc, asserts, coarsenVars>>

\* Lines 363-393: one pass of the loop over the vertices.
matching_HEM_loop ==
    /\ pc = "matching_HEM"
    /\ k < graph.n
    /\ LET hn == Heaviest(graph, graph.p[k], graph.p[k + 1], -1, -1, TRUE)
       IN  graph' = IF isMatched(graph, k) \/ hn = -1 THEN graph
                    ELSE createMatch(graph, k, hn, "Standard")
    /\ k' = k + 1
    /\ UNCHANGED <<otherVars, options, pc, asserts, coarsenVars>>

matching_HEM_debug ==
    /\ pc = "matching_HEM"
    /\ k = graph.n
    /\ asserts' = IF MaximalMatching(graph) THEN asserts
                  ELSE asserts \cup {"matching_HEM:409"}
    /\ pc' = AfterRoutine("matching_HEM")
    /\ k' = 0
    /\ UNCHANGED <<otherVars, graph, options, coarsenVars>>

----------------------------------------------------------------------------
\* matching_PA and matching_DavisPA

\* The entry check of both routines: every neighbour of an unmatched vertex
\* is matched.
UnmatchedHaveMatchedNeighbors(g) ==
    \A v \in 0..(g.n - 1) :
        ~isMatched(g, v) =>
            \A q \in g.p[v]..(g.p[v + 1] - 1) : isMatched(g, g.i[q])

\* The scan of a pivot's column that pairs up its unmatched neighbours in
\* storage order; the result is the graph and the vertex left over (or -1).
RECURSIVE PairUp(_, _, _, _)
PairUp(g, q, qend, v) ==
    IF q >= qend THEN [g |-> g, v |-> v]
    ELSE IF isMatched(g, g.i[q]) THEN PairUp(g, q + 1, qend, v)
    ELSE IF v = -1 THEN PairUp(g, q + 1, qend, g.i[q])
    ELSE PairUp(createMatch(g, v, g.i[q], "Brotherly"), q + 1, qend, -1)

\* Mutant: the vertex left over joins the pivot's match whatever
\* doCommunityMatching says.
Resolve_ignoresOption(g, pivot, community) ==
    LET r == PairUp(g, g.p[pivot], g.p[pivot + 1], -1)
    IN  IF r.v = -1 THEN r.g
        ELSE createCommunityMatch(r.g, pivot, r.v, "Community")

\* Pair up the pivot's unmatched neighbours and settle the one left over.
Resolve(g, pivot, community) ==
    LET r == PairUp(g, g.p[pivot], g.p[pivot + 1], -1)
    IN  IF r.v = -1 THEN r.g
        ELSE IF community
        THEN createCommunityMatch(r.g, pivot, r.v, "Community")
        ELSE createMatch(r.g, r.v, r.v, "Orphan")

matching_PA_entry ==
    /\ pc = "matching_PA_entry"
    /\ asserts' = IF UnmatchedHaveMatchedNeighbors(graph) THEN asserts
                  ELSE asserts \cup {"matching_PA:163"}
    /\ pc' = "matching_PA"
    /\ k' = 0
    /\ UNCHANGED <<otherVars, graph, options, coarsenVars>>

matching_PA_loop ==
    /\ pc = "matching_PA"
    /\ k < graph.n
    /\ LET hn == Heaviest(graph, graph.p[k], graph.p[k + 1], -1, -1, FALSE)
       IN  graph' = IF isMatched(graph, k) \/ hn = -1 THEN graph
                    ELSE Resolve(graph, hn, options.doCommunityMatching)
    /\ k' = k + 1
    /\ UNCHANGED <<otherVars, options, pc, asserts, coarsenVars>>

\* The closing debug check of matching_PA for vertex v: the labels of the
\* assertions that fire.  A read of matching[-1] is outside the array.
PA_check(g, community, v) ==
    LET v1a == getMatch(g, v)
        v1  == IF v1a = v THEN -1 ELSE v1a
        v2a == IF v1 # -1 THEN getMatch(g, v1) ELSE -1
        v2  == IF v2a = v THEN -1 ELSE v2a
    IN  (IF community /\ ~isMatched(g, v) THEN {"matching_PA:236"} ELSE {})
        \cup
        (IF community
         THEN IF v2 # -1
              THEN IF getMatch(g, v2) = v THEN {} ELSE {"matching_PA:256"}
              ELSE IF v1 = -1 THEN {"matching_PA:260:read of matching[-1]"}
              ELSE IF getMatch(g, v1) = v THEN {} ELSE {"matching_PA:260"}
         ELSE IF v1 # -1
              THEN IF getMatch(g, v1) = v THEN {} ELSE {"matching_PA:267"}
              ELSE IF getMatch(g, v) = v THEN {} ELSE {"matching_PA:271"})

matching_PA_debug ==
    /\ pc = "matching_PA"
    /\ k = graph.n
    /\ asserts' = asserts \cup
           UNION {PA_check(graph, options.doCommunityMatching, v) :
                    v \in 0..(graph.n - 1)}
    /\ pc' = "matching_Cleanup"
    /\ k' = 0
    /\ UNCHANGED <<otherVars, graph, options, coarsenVars>>

\* (Int) bt, bt = davisBrotherlyThreshold * (nz / n).
BrotherlyThreshold(g, thr) == (thr * g.nz) \div g.n

matching_DavisPA_entry ==
    /\ pc = "matching_DavisPA_entry"
    /\ asserts' = IF UnmatchedHaveMatchedNeighbors(graph) THEN asserts
                  ELSE asserts \cup {"matching_DavisPA:301"}
    /\ pc' = "matching_DavisPA"
    /\ k' = 0
    /\ UNCHANGED <<otherVars, graph, options, coarsenVars>>

matching_DavisPA_loop ==
    /\ pc = "matching_DavisPA"
    /\ k < graph.n
    /\ graph' =
         IF /\ isMatched(graph, k)
            /\ degree(graph, k) >=
                 BrotherlyThreshold(graph, options.davisBrotherlyThreshold)
         THEN Resolve(graph, k, options.doCommunityMatching)
         ELSE graph
    /\ k' = k + 1
    /\ UNCHANGED <<otherVars, options, pc, asserts, coarsenVars>>

matching_DavisPA_debug ==
    /\ pc = "matching_DavisPA"
    /\ k = graph.n
    /\ asserts' = IF graph.cn < graph.n THEN asserts
                  ELSE asserts \cup {"matching_DavisPA:348"}
    /\ pc' = "matching_Cleanup"
    /\ k' = 0
    /\ UNCHANGED <<otherVars, graph, options, coarsenVars>>

----------------------------------------------------------------------------
\* matching_Cleanup

\* Mutant: singleton is not reset after two isolated vertices are paired.
Cleanup_step_keepsSingleton(g, v) ==
    IF isMatched(g, v) THEN g
    ELSE IF degree(g, v) = 0
    THEN IF g.singleton = -1
         THEN [g EXCEPT !.singleton = v]
         ELSE createMatch(g, v, g.singleton, "Standard")
    ELSE createMatch(g, v, v, "Orphan")

\* The body of matching_Cleanup's loop for vertex v.
\* Mutant: an isolated vertex is matched to itself at once, like any other
\* unmatched vertex.
Cleanup_step_orphansAll(g, v) ==
    IF isMatched(g, v) THEN g
    ELSE createMatch(g, v, v, "Orphan")

Cleanup_step(g, v) ==
    IF isMatched(g, v) THEN g
    ELSE IF degree(g, v) = 0
    THEN IF g.singleton = -1
         THEN [g EXCEPT !.singleton = v]
         ELSE [createMatch(g, v, g.singleton, "Standard")
                  EXCEPT !.singleton = -1]
    ELSE createMatch(g, v, v, "Orphan")

matching_Cleanup_loop ==
    /\ pc = "matching_Cleanup"
    /\ k < graph.n
    /\ graph' = Cleanup_step(graph, k)
    /\ k' = k + 1
    /\ UNCHANGED <<otherVars, options, pc, asserts, coarsenVars>>

\* The leftover singleton, and the return of match().
matching_Cleanup_leftover ==
    /\ pc = "matching_Cleanup"
    /\ k = graph.n
    /\ graph' = IF graph.singleton # -1
                THEN createMatch(graph, graph.singleton, graph.singleton,
                                 "Orphan")
                ELSE graph
    /\ pc' = "matched"
    /\ k' = 0
    /\ UNCHANGED <<otherVars, options, asserts, coarsenVars>>

----------------------------------------------------------------------------
\* coarsen

\* Graph::Create(G): a graph of G->cn vertices with room for G->nz entries,
\* W copied from the parent.  The arrays' contents are unspecified until
\* coarsen writes them (shown as 0; coarsen never reads them before).
Graph_Create(g) ==
    [n |-> g.cn, nz |-> g.nz,
     p |-> [c \in 0..g.cn |-> 0],
     i |-> [q \in 0..(g.nz - 1) |-> 0],
     x |-> [q \in 0..(g.nz - 1) |-> 0],
     w |-> [c \in 0..(g.cn - 1) |-> 0],
     vertexGains |-> [c \in 0..(g.cn - 1) |-> 0],
     W |-> g.W, X |-> 0, H |-> 0,
     partition |-> NULL]

\* The allocation of the coarse graph; ok is the allocator's answer.
coarsen_Create(ok) ==
    /\ pc = "matched"
    /\ G0' = graph
    /\ nmalloc' = nmalloc + 1
    /\ IF ok
       THEN /\ C' = Graph_Create(graph)
            /\ heap' = heap \cup {"C"}
            /\ pc' = "coarsen_htable"
            /\ ret' = ret
       ELSE /\ C' = NULL
            /\ heap' = heap
            /\ pc' = "coarsened"
            /\ ret' = "NULL"
    /\ UNCHANGED <<otherVars, graph, options, k, asserts, htable, munch, X, partition>>

\* Mutant: when htable cannot be allocated, NULL is returned and the coarse
\* graph is kept.
coarsen_htable_leak(ok) ==
    /\ pc = "coarsen_htable"
    /\ nmalloc' = nmalloc + 1
    /\ IF ok
       THEN /\ htable' = [c \in 0..(graph.cn - 1) |-> -1]
            /\ heap' = heap \cup {"htable"}
            /\ pc' = "coarsen"
            /\ ret' = ret
       ELSE /\ htable' = NULL
            /\ heap' = heap
            /\ pc' = "coarsened"
            /\ ret' = "NULL"
    /\ C' = C
    /\ k' = 0
    /\ munch' = 0
    /\ X' = 0
    /\ UNCHANGED <<otherVars, graph, options, asserts, G0, partition>>

\* The allocation of htable, its release of C on failure, and its fill.
coarsen_htable(ok) ==
    /\ pc = "coarsen_htable"
    /\ nmalloc' = nmalloc + 1
    /\ IF ok
       THEN /\ htable' = [c \in 0..(graph.cn - 1) |-> -1]
            /\ heap' = heap \cup {"htable"}
            /\ C' = C
            /\ pc' = "coarsen"
            /\ ret' = ret
       ELSE /\ htable' = NULL
            /\ heap' = heap \ {"C"}
            /\ C' = NULL
            /\ pc' = "coarsened"
            /\ ret' = "NULL"
    /\ k' = 0
    /\ munch' = 0
    /\ X' = 0
    /\ UNCHANGED <<otherVars, graph, options, asserts, G0, partition>>

\* Mutant: the third vertex of a 3-way match is not loaded.
Members_pairOnly(g, c) ==
    LET v0 == g.invmatchmap[c]
        v1 == getMatch(g, v0)
    IN  IF v0 = v1 \/ v1 = -1 THEN <<v0>> ELSE <<v0, v1>>

\* v[0..2] of coarse vertex c, up to the first -1: the fine vertices the
\* column loop visits.
Members(g, c) ==
    LET v0 == g.invmatchmap[c]
        v1 == getMatch(g, v0)
    IN  IF v0 = v1 \/ v1 = -1 THEN <<v0>>
        ELSE LET v2 == getMatch(g, v1)
             IN  IF v0 = v2 \/ v2 = -1 THEN <<v0, v1>> ELSE <<v0, v1, v2>>

\* Mutant: the self-edge test is missing.
ScatterEntry_keepsSelfEdges(st, g, c, ps, q) ==
    LET toCoarsened == g.matchmap[g.i[q]]
        edgeWeight == g.x[q]
        cp == st.htable[toCoarsened]
    IN  IF cp < ps
        THEN [st EXCEPT !.sumEdgeWeights = @ + edgeWeight,
                        !.htable[toCoarsened] = st.munch,
                        !.Ci[st.munch] = toCoarsened,
                        !.Cx[st.munch] = edgeWeight,
                        !.munch = @ + 1]
        ELSE [st EXCEPT !.sumEdgeWeights = @ + edgeWeight,
                        !.Cx[cp] = @ + edgeWeight]

\* Mutant: htable is tested against -1 instead of the column start, so an
\* entry of an earlier column counts as seen.
ScatterEntry_neverResets(st, g, c, ps, q) ==
    LET toCoarsened == g.matchmap[g.i[q]]
        edgeWeight == g.x[q]
        cp == st.htable[toCoarsened]
    IN  IF toCoarsened = c THEN st
        ELSE IF cp < 0
        THEN [st EXCEPT !.sumEdgeWeights = @ + edgeWeight,
                        !.htable[toCoarsened] = st.munch,
                        !.Ci[st.munch] = toCoarsened,
                        !.Cx[st.munch] = edgeWeight,
                        !.munch = @ + 1]
        ELSE [st EXCEPT !.sumEdgeWeights = @ + edgeWeight,
                        !.Cx[cp] = @ + edgeWeight]

\* Mutant: a repeated target overwrites the stored weight instead of adding.
ScatterEntry_overwrites(st, g, c, ps, q) ==
    LET toCoarsened == g.matchmap[g.i[q]]
        edgeWeight == g.x[q]
        cp == st.htable[toCoarsened]
    IN  IF toCoarsened = c THEN st
        ELSE IF cp < ps
        THEN [st EXCEPT !.sumEdgeWeights = @ + edgeWeight,
                        !.htable[toCoarsened] = st.munch,
                        !.Ci[st.munch] = toCoarsened,
                        !.Cx[st.munch] = edgeWeight,
                        !.munch = @ + 1]
        ELSE [st EXCEPT !.sumEdgeWeights = @ + edgeWeight,
                        !.Cx[cp] = edgeWeight]

\* The body of the loop over a fine vertex's column: entry q is scattered
\* into coarse column c, which started at ps.
ScatterEntry(st, g, c, ps, q) ==
    LET toCoarsened == g.matchmap[g.i[q]]
        edgeWeight == g.x[q]
        cp == st.htable[toCoarsened]
    IN  IF toCoarsened = c THEN st
        ELSE IF cp < ps
        THEN [st EXCEPT !.sumEdgeWeights = @ + edgeWeight,
                        !.htable[toCoarsened] = st.munch,
                        !.Ci[st.munch] = toCoarsened,
                        !.Cx[st.munch] = edgeWeight,
                        !.munch = @ + 1]
        ELSE [st EXCEPT !.sumEdgeWeights = @ + edgeWeight,
                        !.Cx[cp] = @ + edgeWeight]

\* The loop over entries q..qend-1 of one fine vertex's column.
RECURSIVE ScatterColumn(_, _, _, _, _, _)
ScatterColumn(st, g, c, ps, q, qend) ==
    IF q >= qend THEN st
    ELSE ScatterColumn(ScatterEntry(st, g, c, ps, q), g, c, ps, q + 1, qend)

\* The loop over the fine vertices vs of coarse vertex c.
RECURSIVE ScatterSupernode(_, _, _, _, _)
ScatterSupernode(st, g, c, ps, vs) ==
    IF vs = << >> THEN st
    ELSE LET vertex == Head(vs)
         IN  ScatterSupernode(
                 ScatterColumn([st EXCEPT !.nodeWeight = @ + g.w[vertex]],
                               g, c, ps, g.p[vertex], g.p[vertex + 1]),
                 g, c, ps, Tail(vs))

\* One iteration of "for each vertex in the coarse graph".
coarsen_column ==
    /\ pc = "coarsen"
    /\ k < graph.cn
    /\ LET st == ScatterSupernode(
                     [Ci |-> C.i, Cx |-> C.x, htable |-> htable,
                      munch |-> munch, nodeWeight |-> 0, sumEdgeWeights |-> 0],
                     graph, k, munch, Members(graph, k))
       IN  /\ C' = [C EXCEPT !.p[k] = munch, !.i = st.Ci, !.x = st.Cx,
                             !.w[k] = st.nodeWeight,
                             !.vertexGains[k] = 0 - st.sumEdgeWeights]
           /\ htable' = st.htable
           /\ munch' = st.munch
           /\ X' = X + st.sumEdgeWeights
    /\ k' = k + 1
    /\ UNCHANGED <<otherVars, graph, options, pc, asserts, heap, nmalloc, ret, G0,
                   partition>>

\* The assertions of the doExpensiveChecks block on the finished graph c.
ExpensiveChecks(c) ==
    (IF \A j \in 0..(c.n - 1) : c.p[j + 1] - c.p[j] > 0
     THEN {} ELSE {"coarsen:155"})
    \cup
    (IF SumTo(c.w, c.n - 1) = c.W THEN {} ELSE {"coarsen:159"})

\* The last column pointer, nz, X, H, the release of htable, the expensive
\* checks and the return.
coarsen_finish ==
    /\ pc = "coarsen"
    /\ k = graph.cn
    /\ C' = [C EXCEPT !.p[graph.cn] = munch, !.nz = munch,
                      !.X = X, !.H = 2 * X]
    /\ htable' = NULL
    /\ heap' = heap \ {"htable"}
    /\ asserts' = IF options.doExpensiveChecks
                  THEN asserts \cup ExpensiveChecks(C')
                  ELSE asserts
    /\ ret' = "C"
    /\ pc' = "coarsened"
    /\ UNCHANGED <<otherVars, graph, options, k, munch, X, nmalloc, G0, partition>>

----------------------------------------------------------------------------
\* Initial guess on the coarse graph and projection to the fine graph.

\* The natural-order guess: the first floor(n/2) coarse vertices on side 0,
\* the others on side 1.
guess ==
    /\ pc = "coarsened"
    /\ ret = "C"
    /\ C' = [C EXCEPT !.partition =
                 [c \in 0..(C.n - 1) |-> IF c < C.n \div 2 THEN 0 ELSE 1]]
    /\ pc' = "guessed"
    /\ UNCHANGED <<otherVars, graph, options, k, asserts, htable, munch, X, heap,
                   nmalloc, ret, G0, partition>>

\* Mutant: the coarse partition is indexed by the fine vertex instead of
\* matchmap[v].
projectUp_fineIndex ==
    /\ pc = "guessed"
    /\ partition' \in
         {f \in [0..(graph.n - 1) -> {0, 1, 2}] :
            \A v \in 0..(graph.n - 1) :
                v \in DOMAIN C.partition => f[v] = C.partition[v]}
    /\ pc' = "projected"
    /\ UNCHANGED <<otherVars, graph, options, k, asserts, C, htable, munch, X, heap,
                   nmalloc, ret, G0>>

\* parent.partition[v] = partition[matchmap[v]]; a read outside the coarse
\* partition yields an arbitrary value.
projectUp ==
    /\ pc = "guessed"
    /\ partition' \in
         {f \in [0..(graph.n - 1) -> {0, 1, 2}] :
            \A v \in 0..(graph.n - 1) :
                graph.matchmap[v] \in DOMAIN C.partition
                    => f[v] = C.partition[graph.matchmap[v]]}
    /\ pc' = "projected"
    /\ UNCHANGED <<otherVars, graph, options, k, asserts, C, htable, munch, X, heap,
                   nmalloc, ret, G0>>

----------------------------------------------------------------------------
Next ==
    \/ match
    \/ matching_Random_loop
    \/ matching_Random_debug
    \/ matching_HEM_loop
    \/ matching_HEM_debug
    \/ matching_PA_entry
    \/ matching_PA_loop
    \/ matching_PA_debug
    \/ matching_DavisPA_entry
    \/ matching_DavisPA_loop
    \/ matching_DavisPA_debug
    \/ matching_Cleanup_loop
    \/ matching_Cleanup_leftover
    \/ \E ok \in BOOLEAN : coarsen_Create(ok)
    \/ \E ok \in BOOLEAN : coarsen_htable(ok)
    \/ coarsen_column
    \/ coarsen_finish
    \/ guess
    \/ projectUp

Spec == Init /\ [][Next]_vars

----------------------------------------------------------------------------
\* match() under the HEM strategy on graphs with and without edge weights
\* (graph->x may be NULL: matching_HEM then takes every weight as 1).

UnweightedGraphs ==
    UNION {
        {[MakeGraph(n, ew, VertexWeights(n)) EXCEPT !.x = NULL] :
            ew \in {f \in [Pairs(n) -> {0, 1}] :
                      Cardinality({e \in Pairs(n) : f[e] > 0}) <= MaxEdges}} :
        n \in 1..MaxN}

InitHEM ==
    /\ graph \in InputGraphs \cup UnweightedGraphs
    /\ options \in {o \in InputOptions : o.matchingStrategy = "HEM"}
    /\ pc = "match"
    /\ k = 0
    /\ asserts = {}
    /\ C = NULL
    /\ htable = NULL
    /\ munch = 0
    /\ X = 0
    /\ heap = {}
    /\ nmalloc = 0
    /\ ret = "none"
    /\ G0 = NULL
    /\ partition = NULL
    /\ QP = NULL
    /\ links = NULL
    /\ test = NULL
    /\ cond = NULL

NextHEM ==
    \/ match
    \/ matching_HEM_loop
    \/ matching_HEM_debug
    \/ matching_Cleanup_loop
    \/ matching_Cleanup_leftover

SpecHEM == InitHEM /\ [][NextHEM]_vars

----------------------------------------------------------------------------
\* QPLinks (Source/Mongoose_Options.cpp): the links between a graph and the
\* QP state for a given x.
\*
\* The doubles of QPLinks are exact multiples of one half in the model: the
\* integer v stands for v/2 in x, gradient, s, b, lo and hi.  The vertex
\* weights a, the edge weights Ex and D are whole numbers.

MaxQPN == 2

\* The literals 0.5, 1. and 0. of QPLinks in halves.
Half == 1
One == 2
Zero == 0

\* x[k] on entry: -0.5, 0, 0.5, 1 and 1.5.
XValues == {-1, 0, 1, 2, 3}

\* lo and hi as the caller left them: a window around half of the weight,
\* and the window of width zero that a tolerance of 0 gives.
LoHi == {<<1, 3>>, <<2, 2>>}

\* What the output fields hold on entry: a fresh (zeroed) QPDelta or the
\* values of an earlier call.
Stale == {0, 5}

QPGraphs ==
    UNION {
        {MakeGraph(n, ew, VertexWeights(n)) :
            ew \in [Pairs(n) -> {0} \cup EdgeWeights]} :
        n \in 1..MaxQPN}

QPDeltas(n) ==
    {[x |-> x,
      D |-> [v \in 0..(n-1) |-> v + 1],
      lo |-> lh[1], hi |-> lh[2],
      FreeSet_status |-> [v \in 0..(n-1) |-> e],
      FreeSet_list |-> [v \in 0..(n-1) |-> e],
      gradient |-> [v \in 0..(n-1) |-> e],
      nFreeSet |-> e, b |-> e, ib |-> e,
      check_cost |-> e] :
        x \in [0..(n-1) -> XValues], lh \in LoHi, e \in Stale}

InitQP ==
    /\ graph \in QPGraphs
    /\ QP \in QPDeltas(graph.n)
    /\ links = [s |-> 0, nFreeSet |-> 0, ret |-> "none", QP0 |-> QP, G0 |-> graph]
    /\ options = NULL
    /\ pc = "QPLinks"
    /\ k = 0
    /\ asserts = {}
    /\ C = NULL
    /\ htable = NULL
    /\ munch = 0
    /\ X = 0
    /\ heap = {}
    /\ nmalloc = 0
    /\ ret = "none"
    /\ G0 = NULL
    /\ partition = NULL
    /\ test = NULL
    /\ cond = NULL

qpFrame == <<options, C, htable, munch, X, heap, nmalloc, ret, G0, partition,
             test, cond>>

\* Mutant: the first loop adds to what the gradient array holds instead of
\* overwriting it.
QPLinks_gradient_accumulates ==
    /\ pc = "QPLinks"
    /\ QP' = [QP EXCEPT !.gradient =
                 [v \in 0..(graph.n - 1) |->
                     QP.gradient[v] + (Half - QP.x[v]) * QP.D[v]]]
    /\ links' = [links EXCEPT !.s = 0, !.nFreeSet = 0]
    /\ k' = 0
    /\ pc' = "QPLinks_loop"
    /\ UNCHANGED <<graph, asserts, qpFrame>>

\* Lines 81-84: the first loop, grad[k] = (0.5 - x[k]) * D[k].
QPLinks_gradient ==
    /\ pc = "QPLinks"
    /\ QP' = [QP EXCEPT !.gradient =
                 [v \in 0..(graph.n - 1) |-> (Half - QP.x[v]) * QP.D[v]]]
    /\ links' = [links EXCEPT !.s = 0, !.nFreeSet = 0]
    /\ k' = 0
    /\ pc' = "QPLinks_loop"
    /\ UNCHANGED <<graph, asserts, qpFrame>>

\* Lines 97-100: grad[Ei[p]] += r * Ex[p] for the entries q..qend-1.
RECURSIVE Scatter(_, _, _, _, _)
Scatter(grad, g, r, q, qend) ==
    IF q >= qend THEN grad
    ELSE Scatter([grad EXCEPT ![g.i[q]] = @ + r * g.x[q]], g, r, q + 1, qend)

\* Lines 101-115: the bucket of vertex v.
Bucket_strict(qp, nFreeSet, v) ==
    LET xk == qp.x[v]
    IN  IF xk > One
        THEN [qp EXCEPT !.FreeSet_status[v] = 1]
        ELSE IF xk < Zero
        THEN [qp EXCEPT !.FreeSet_status[v] = -1]
        ELSE [qp EXCEPT !.FreeSet_status[v] = 0,
                        !.FreeSet_list[nFreeSet] = v]

Bucket(qp, nFreeSet, v) ==
    LET xk == qp.x[v]
    IN  IF xk >= One
        THEN [qp EXCEPT !.FreeSet_status[v] = 1]
        ELSE IF xk <= Zero
        THEN [qp EXCEPT !.FreeSet_status[v] = -1]
        ELSE [qp EXCEPT !.FreeSet_status[v] = 0,
                        !.FreeSet_list[nFreeSet] = v]

\* Lines 89-93: the test that makes QPLinks fail.
OutOfRange_upperOnly(xk) == xk > One

OutOfRange(xk) == xk < Zero \/ xk > One

\* Lines 86-116: one pass of the second loop, or the return of false.
QPLinks_loop ==
    /\ pc = "QPLinks_loop"
    /\ k < graph.n
    /\ LET xk == QP.x[k]
           r == Half - xk
       IN  IF OutOfRange(xk)
           THEN /\ links' = [links EXCEPT !.ret = "false"]
                /\ pc' = "QPLinks_done"
                /\ UNCHANGED <<QP, k>>
           ELSE /\ QP' = Bucket([QP EXCEPT !.gradient =
                                    Scatter(QP.gradient, graph, r,
                                            graph.p[k], graph.p[k + 1])],
                                links.nFreeSet, k)
                /\ links' = [links EXCEPT
                               !.s = @ + graph.w[k] * xk,
                               !.nFreeSet = IF Zero < xk /\ xk < One
                                            THEN @ + 1 ELSE @]
                /\ k' = k + 1
                /\ pc' = pc
    /\ UNCHANGED <<graph, asserts, qpFrame>>

\* Line 126: ib from s, lo and hi.
Sign_strict(s, lo, hi) == IF s < lo THEN -1 ELSE IF s < hi THEN 0 ELSE 1

Sign(s, lo, hi) == IF s <= lo THEN -1 ELSE IF s < hi THEN 0 ELSE 1

\* Lines 141-156: eps = maxVal * minVal * n, where minVal is the least x[k]
\* but at least 1E-8 and maxVal the largest but at least 1.  In halves eps is
\* (maxVal * minVal * n) / 2; when the least x[k] is 0 it is n * 1E-8 or
\* 2 * n * 1E-8, which is positive and below every difference the model's
\* values can have ("tiny").
MinX(qp, n) == CHOOSE m \in {qp.x[v] : v \in 0..(n-1)} :
                   \A v \in 0..(n-1) : m <= qp.x[v]

MaxX(qp, n) == CHOOSE m \in {One} \cup {qp.x[v] : v \in 0..(n-1)} :
                   /\ m >= One
                   /\ \A v \in 0..(n-1) : m >= qp.x[v]

\* a < b + eps, a <= b + eps and fabs(a - b) < eps, with a and b in halves
\* and eps2 = 2 * eps in halves.
LtEps(a, b, tiny, eps2) == IF tiny THEN a <= b ELSE 2 * a < 2 * b + eps2

LeEps(a, b, tiny, eps2) == IF tiny THEN a <= b ELSE 2 * a <= 2 * b + eps2

NearEps(a, b, tiny, eps2) ==
    IF tiny THEN a = b ELSE 2 * a - 2 * b < eps2 /\ 2 * b - 2 * a < eps2

\* Lines 157-160: the labels of the closing assertions that fail.
QPLinks_check(qp, n) ==
    LET tiny == MinX(qp, n) <= 0
        eps2 == MaxX(qp, n) * MinX(qp, n) * n
    IN  {l \in {"QPLinks:157", "QPLinks:158", "QPLinks:159", "QPLinks:160"} :
            \/ l = "QPLinks:157" /\ qp.ib = -1
                                 /\ ~NearEps(qp.b, qp.lo, tiny, eps2)
            \/ l = "QPLinks:158" /\ qp.ib = 0
                                 /\ ~(LtEps(qp.lo, qp.b, tiny, eps2)
                                      /\ LtEps(qp.b, qp.hi, tiny, eps2))
            \/ l = "QPLinks:159" /\ qp.ib = 1
                                 /\ ~NearEps(qp.b, qp.hi, tiny, eps2)
            \/ l = "QPLinks:160" /\ ~(LeEps(qp.lo, qp.b, tiny, eps2)
                                      /\ LeEps(qp.b, qp.hi, tiny, eps2))}

\* The value check_cost takes at line 130 (INFINITY).
INFINITY == "inf"

\* Lines 118-163: the stores into QP, the debug block and the return of true.
QPLinks_finish ==
    /\ pc = "QPLinks_loop"
    /\ k = graph.n
    /\ LET qp == [QP EXCEPT !.nFreeSet = links.nFreeSet,
                            !.b = links.s,
                            !.ib = Sign(links.s, QP.lo, QP.hi),
                            !.check_cost = INFINITY]
       IN  /\ QP' = qp
           /\ asserts' = asserts \cup QPLinks_check(qp, graph.n)
    /\ links' = [links EXCEPT !.ret = "true"]
    /\ pc' = "QPLinks_done"
    /\ UNCHANGED <<graph, k, qpFrame>>

NextQP ==
    \/ QPLinks_gradient
    \/ QPLinks_loop
    \/ QPLinks_finish

SpecQP == InitQP /\ [][NextQP]_vars

----------------------------------------------------------------------------
\* Options::Create (Source/Mongoose_Options.cpp) and the memory test that
\* calls it (Tests/Mongoose_Test_EdgeSeparator_exe.cpp): runMemoryTest
\* creates the Options and RunAllTests sweeps over its fields, calling
\* RunTest with 0, 1, 2, ... allowed allocations until one is left over.
\*
\* A double is the pair <<numerator, denominator>>.

\* The largest number of allocations a run of RunTest asks for.
MaxMallocs == 2

\* Lines 14-39: the fields of a fresh Options.
Options_defaults ==
    [randomSeed |-> 0,
     coarsenLimit |-> 256,
     matchingStrategy |-> "HEMDavisPA",
     doCommunityMatching |-> FALSE,
     davisBrotherlyThreshold |-> <<2, 1>>,
     guessCutType |-> "Pseudoperipheral_Fast",
     guessSearchDepth |-> 10,
     numDances |-> 1,
     useFM |-> TRUE,
     fmSearchDepth |-> 50,
     fmConsiderCount |-> 3,
     fmMaxNumRefinements |-> 20,
     useQPGradProj |-> TRUE,
     useQPBallOpt |-> TRUE,
     gradprojTol |-> <<1, 1000>>,
     gradprojIterationLimit |-> 50,
     targetSplit |-> <<1, 2>>,
     tolerance |-> <<1, 100>>,
     doExpensiveChecks |-> FALSE]

\* RunAllTests, lines 104-106: the values the sweep assigns.
matchingStrategies == <<"Random", "HEM", "HEMSR", "HEMSRdeg">>
guessCutStrategies == <<"GuessQP", "GuessRandom", "GuessNaturalOrder">>
coarsenLimit == <<64, 256, 1024>>

\* test.need is the number of allocations readGraph and ComputeEdgeSeparator
\* ask for in one run; with fewer allowed, RunTest returns 0.
InitOptions ==
    /\ options = NULL
    /\ test \in [c : {0}, i : {0}, j : {0}, k : {0}, m : {0},
                 need : 0..MaxMallocs, status : {"none"}]
    /\ pc = "Options_Create"
    /\ graph = NULL
    /\ k = 0
    /\ asserts = {}
    /\ C = NULL
    /\ htable = NULL
    /\ munch = 0
    /\ X = 0
    /\ heap = {}
    /\ nmalloc = 0
    /\ ret = "none"
    /\ G0 = NULL
    /\ partition = NULL
    /\ QP = NULL
    /\ links = NULL
    /\ cond = NULL

optFrame == <<graph, k, asserts, C, htable, munch, X, heap, nmalloc, ret, G0,
              partition, QP, links, cond>>

\* Options::Create, called at line 76 of the test; ok is whether
\* SuiteSparse_calloc returned a block.
Options_Create(ok) ==
    /\ pc = "Options_Create"
    /\ IF ok
       THEN /\ options' = Options_defaults
            /\ pc' = "RunAllTests"
            /\ UNCHANGED test
       ELSE /\ options' = NULL
            /\ pc' = "test_done"
            /\ test' = [test EXCEPT !.status = "EXIT_FAILURE"]
    /\ UNCHANGED optFrame

\* Lines 108-122: the assignments made on the way into the innermost loop.
RunAllTests_set ==
    /\ pc = "RunAllTests"
    /\ options' = [options EXCEPT
                     !.doCommunityMatching = (test.c = 1),
                     !.matchingStrategy = matchingStrategies[test.i + 1],
                     !.guessCutType = guessCutStrategies[test.j + 1],
                     !.coarsenLimit = coarsenLimit[test.k + 1]]
    /\ test' = [test EXCEPT !.m = 0]
    /\ pc' = "RunTest"
    /\ UNCHANGED optFrame

\* RunTest, lines 155-175: the allocations left over of the m allowed.
RunTest(m, need) == IF m >= need THEN m - need ELSE 0

\* Lines 108-136: the loop counters after one more pass of the innermost
\* loop body.
Advance(t) ==
    IF t.k < 2 THEN [t EXCEPT !.k = @ + 1]
    ELSE IF t.j < 2 THEN [t EXCEPT !.k = 0, !.j = @ + 1]
    ELSE IF t.i < 3 THEN [t EXCEPT !.k = 0, !.j = 0, !.i = @ + 1]
    ELSE [t EXCEPT !.k = 0, !.j = 0, !.i = 0, !.c = @ + 1]

\* Lines 123-132: one pass of the do-while loop.
RunAllTests_do ==
    /\ pc = "RunTest"
    /\ LET remainingMallocs == RunTest(test.m, test.need)
       IN  IF remainingMallocs = -1
           THEN /\ test' = [test EXCEPT !.status = "EXIT_FAILURE"]
                /\ pc' = "test_done"
           ELSE IF remainingMallocs < 1
           THEN /\ test' = [test EXCEPT !.m = @ + 1]
                /\ pc' = pc
           ELSE LET t == Advance([test EXCEPT !.m = @ + 1])
                IN  /\ test' = IF t.c < 2 THEN t ELSE [t EXCEPT !.m = 0]
                    /\ pc' = IF t.c < 2 THEN "RunAllTests" ELSE "RunTest_NULL"
    /\ UNCHANGED <<options, optFrame>>

\* Lines 138-152: the run without an options struct.
RunAllTests_noOptions ==
    /\ pc = "RunTest_NULL"
    /\ LET remainingMallocs == RunTest(test.m, test.need)
       IN  IF remainingMallocs = -1
           THEN /\ test' = [test EXCEPT !.status = "EXIT_FAILURE"]
                /\ pc' = "test_done"
           ELSE IF remainingMallocs < 1
           THEN /\ test' = [test EXCEPT !.m = @ + 1]
                /\ pc' = pc
           ELSE /\ test' = [test EXCEPT !.m = @ + 1,
                                        !.status = "EXIT_SUCCESS"]
                /\ pc' = "test_done"
    /\ UNCHANGED <<options, optFrame>>

NextOptions ==
    \/ \E ok \in BOOLEAN : Options_Create(ok)
    \/ RunAllTests_set
    \/ RunAllTests_do
    \/ RunAllTests_noOptions

SpecOptions == InitOptions /\ [][NextOptions]_vars

----------------------------------------------------------------------------
\* conditionGraph (Source/Mongoose_Coarsening.cpp, lines 185-226).
\*
\* A matrix is a function from its stored positions <<column, row>> to the
\* stored values.  The input may be unsymmetric and may hold negative
\* values; its values are even, so that 0.5 * a + 0.5 * t is a whole number.
\*
\* cond.old is the storage of the Graph passed in (live until it is
\* destroyed at lines 206-207), cond.G the Graph the variable G points to
\* after line 205, cond.Gp and cond.Gx the blocks the locals Gp and Gx point
\* to, and cond.freed the accesses made to storage that was already freed.

MaxCondN == 3
MaxCondNz == 2

\* Edge weights of the graph passed in.
CondWeights == {-2, 2}

Positions(n) == {e \in (0..(n-1)) \X (0..(n-1)) : e[1] # e[2]}

\* The CSR arrays of the matrix M of size n, rows ascending in each column.
ToGraph(n, M) ==
    LET p  == [c \in 0..n |-> Cardinality({e \in DOMAIN M : e[1] < c})]
        nz == p[n]
        gi == [q \in 0..(nz-1) |->
                 LET c == ColOf(p, n, q)
                 IN  Nth({e[2] : e \in {d \in DOMAIN M : d[1] = c}}, q - p[c])]
        gx == [q \in 0..(nz-1) |-> M[<<ColOf(p, n, q), gi[q]>>]]
    IN  [n |-> n, nz |-> nz, p |-> p, i |-> gi, x |-> gx]

\* GraphToCSparse3: the matrix held in the arrays of g.
GraphToCSparse3(g) ==
    [e \in {<<ColOf(g.p, g.n, q), g.i[q]>> : q \in 0..(g.nz - 1)} |->
        g.x[CHOOSE q \in 0..(g.nz - 1) :
                ColOf(g.p, g.n, q) = e[1] /\ g.i[q] = e[2]]]

\* cs_transpose(A, true).
cs_transpose(A) ==
    [e \in {<<d[2], d[1]>> : d \in DOMAIN A} |-> A[<<e[2], e[1]>>]]

\* cs_add(A, T, 0.5, 0.5): the sum on the union of the two patterns; an
\* entry that sums to zero stays stored.
cs_add(A, T) ==
    [e \in DOMAIN A \cup DOMAIN T |->
        ((IF e \in DOMAIN A THEN A[e] ELSE 0)
         + (IF e \in DOMAIN T THEN T[e] ELSE 0)) \div 2]

\* CSparse3ToGraph(R, resetEW, resetNW): the Graph on R's entries, every
\* edge weight 1 when resetEW is set.
CSparse3ToGraph(n, R, resetEW) ==
    LET g == ToGraph(n, R)
    IN  IF resetEW THEN [g EXCEPT !.x = [q \in 0..(g.nz - 1) |-> 1]] ELSE g

fabs(v) == IF v < 0 THEN 0 - v ELSE v

CondInputs ==
    UNION {
        {ToGraph(n, M) :
            M \in UNION {[S -> CondWeights] :
                         S \in {T \in SUBSET Positions(n) :
                                  Cardinality(T) <= MaxCondNz}}} :
        n \in 1..MaxCondN}

InitCond ==
    /\ cond \in {[resetEW |-> r, old |-> g, live |-> TRUE, n |-> 0,
                  Gp |-> "none", Gx |-> "none", G |-> NULL, G0 |-> g,
                  freed |-> {}, ret |-> "none"] :
                 r \in BOOLEAN, g \in CondInputs}
    /\ pc = "conditionGraph"
    /\ k = 0
    /\ graph = NULL
    /\ options = NULL
    /\ asserts = {}
    /\ C = NULL
    /\ htable = NULL
    /\ munch = 0
    /\ X = 0
    /\ heap = {}
    /\ nmalloc = 0
    /\ ret = "none"
    /\ G0 = NULL
    /\ partition = NULL
    /\ QP = NULL
    /\ links = NULL
    /\ test = NULL

condFrame == <<graph, options, asserts, C, htable, munch, X, heap, nmalloc,
               ret, G0, partition, QP, links, test>>

\* Lines 195-207: the locals n, Gp and Gx are taken from the graph passed
\* in, the symmetric matrix R = (A + A') / 2 is built, G is replaced by the
\* Graph made from R (NULL when CSparse3ToGraph runs out of memory) and the
\* graph passed in is destroyed and freed.
conditionGraph_symmetrize(ok) ==
    /\ pc = "conditionGraph"
    /\ LET A == GraphToCSparse3(cond.old)
           T == cs_transpose(A)
           R == cs_add(A, T)
       IN  cond' = [cond EXCEPT
                      !.n = cond.old.n,
                      !.Gp = "old.p",
                      !.Gx = "old.x",
                      !.G = IF ok
                            THEN CSparse3ToGraph(cond.old.n, R, cond.resetEW)
                            ELSE NULL,
                      !.live = FALSE]
    /\ pc' = "conditionGraph_check"
    /\ UNCHANGED <<k, condFrame>>

\* Lines 210-216: out of memory.
conditionGraph_NULL ==
    /\ pc = "conditionGraph_check"
    /\ cond.G = NULL
    /\ cond' = [cond EXCEPT !.ret = "NULL"]
    /\ pc' = "conditionGraph_done"
    /\ UNCHANGED <<k, condFrame>>

\* Lines 221: Gx[p] = fabs(Gx[p]) for the entries q..qend-1 of the block x.
RECURSIVE Positive(_, _, _)
Positive(x, q, qend) ==
    IF q >= qend THEN x
    ELSE Positive([x EXCEPT ![q] = fabs(@)], q + 1, qend)

\* Lines 219-222: one pass of "make edge weights positive".  Gp and Gx are
\* the arrays of the graph passed in, which has been freed: the pass reads
\* Gp[k] and Gp[k+1] and reads and writes Gx[p] in freed storage.  Either
\* the freed blocks still hold what they held and take the writes, or the
\* access faults.  The Graph in G is a different block and is not written.
conditionGraph_fabs(faults) ==
    /\ pc = "conditionGraph_check"
    /\ cond.G # NULL
    /\ k < cond.n
    /\ LET touched ==
               {"read Gp"} \cup
               (IF cond.old.p[k] < cond.old.p[k + 1]
                THEN {"read Gx", "write Gx"} ELSE {})
       IN  IF faults
           THEN /\ cond' = [cond EXCEPT !.freed = @ \cup touched,
                                        !.ret = "fault"]
                /\ pc' = "conditionGraph_done"
                /\ UNCHANGED k
           ELSE /\ cond' = [cond EXCEPT
                              !.freed = @ \cup touched,
                              !.old.x = Positive(cond.old.x, cond.old.p[k],
                                                 cond.old.p[k + 1])]
                /\ k' = k + 1
                /\ pc' = pc
    /\ UNCHANGED condFrame

\* Line 225: the conditioned graph is returned.
conditionGraph_return ==
    /\ pc = "conditionGraph_check"
    /\ cond.G # NULL
    /\ k = cond.n
    /\ cond' = [cond EXCEPT !.ret = "G"]
    /\ pc' = "conditionGraph_done"
    /\ UNCHANGED <<k, condFrame>>

NextCond ==
    \/ \E ok \in BOOLEAN : conditionGraph_symmetrize(ok)
    \/ conditionGraph_NULL
    \/ \E faults \in BOOLEAN : conditionGraph_fabs(faults)
    \/ conditionGraph_return

SpecCond == InitCond /\ [][NextCond]_vars

----------------------------------------------------------------------------
\* Properties of the matching.

\* match() has returned and nothing has run since.
MatchReturned == pc = "matched"

Vertices == 0..(graph.n - 1)

\* The vertices the matching chain reaches from v in at most two hops.
Chain(v) ==
    LET a == getMatch(graph, v)
        b == getMatch(graph, a)
    IN  {v, a, b}

ChainReturns(v) ==
    LET a == getMatch(graph, v)
        b == getMatch(graph, a)
        c == getMatch(graph, b)
    IN  a = v \/ b = v \/ c = v

----------------------------------------------------------------------------
\* Properties of the coarse graph.

\* coarsen has returned the coarse graph C.
CoarsenReturned == pc = "coarsened" /\ ret = "C"

CoarseIds == 0..(C.n - 1)

\* The fine vertices of supernode c.
Super(c) == {v \in Vertices : graph.matchmap[v] = c}

\* The storage indices of column c of the coarse graph.
Col(c) == C.p[c]..(C.p[c + 1] - 1)

RECURSIVE SetSum(_, _)
SetSum(f, S) ==
    IF S = {} THEN 0
    ELSE LET e == CHOOSE e \in S : TRUE IN f[e] + SetSum(f, S \ {e})

\* The stored fine edges from a vertex of supernode c to one of supernode t.
FineEdges(c, t) ==
    {q \in 0..(graph.nz - 1) :
        /\ graph.matchmap[ColOf(graph.p, graph.n, q)] = c
        /\ graph.matchmap[graph.i[q]] = t}

\* Every stored fine edge (v, u, x) has a stored mirror (u, v, x).
FineSymmetric ==
    \A v \in Vertices : \A q \in graph.p[v]..(graph.p[v + 1] - 1) :
        \E r \in graph.p[graph.i[q]]..(graph.p[graph.i[q] + 1] - 1) :
            graph.i[r] = v /\ graph.x[r] = graph.x[q]

\* C3: C.w[c] is the sum of the weights of the fine vertices of supernode
\* c, and the coarse vertex weights add up to the fine ones (W is kept).
C3_WeightsPreserved ==
    CoarsenReturned =>
        /\ \A c \in CoarseIds : C.w[c] = SetSum(graph.w, Super(c))
        /\ SumTo(C.w, C.n - 1) = SumTo(graph.w, graph.n - 1)
        /\ C.W = graph.W

\* coarsen has returned a graph with a supernode of three fine vertices.
C3_Witness ==
    /\ CoarsenReturned
    /\ \E c \in CoarseIds : Cardinality(Super(c)) = 3

\* C4: the fine graph being symmetric, every stored coarse edge (c, t, x)
\* has a stored mirror (t, c, x).
C4_CoarseSymmetric ==
    (CoarsenReturned /\ FineSymmetric) =>
        \A c \in CoarseIds : \A q \in Col(c) :
            \E r \in Col(C.i[q]) : C.i[r] = c /\ C.x[r] = C.x[q]

\* coarsen has returned a graph with a coarse edge that sums several fine
\* edges of different weights.
C4_Witness ==
    /\ CoarsenReturned
    /\ FineSymmetric
    /\ \E c \in CoarseIds : \E q \in Col(c) :
           \E e1, e2 \in FineEdges(c, C.i[q]) : graph.x[e1] # graph.x[e2]

\* C5: no column of the coarse graph stores its own vertex: the fine edges
\* inside a supernode are dropped.
C5_NoCoarseSelfEdge ==
    CoarsenReturned =>
        \A c \in CoarseIds : \A q \in Col(c) : C.i[q] # c

\* coarsen has returned a graph with edges, built from a fine graph that
\* has an edge inside a supernode.
C5_Witness ==
    /\ CoarsenReturned
    /\ C.nz > 0
    /\ \E c \in CoarseIds : FineEdges(c, c) # {}

\* C6: C.p starts at 0, is non-decreasing and ends at C.nz; a column lists
\* a neighbour at most once, lists exactly the supernodes some fine edge
\* leads to, and stores for each the sum of those fine edges' weights.
C6_ColumnsAccumulate ==
    CoarsenReturned =>
        /\ C.p[0] = 0
        /\ C.p[C.n] = C.nz
        /\ \A c \in CoarseIds : C.p[c] <= C.p[c + 1]
        /\ \A c \in CoarseIds : \A q, r \in Col(c) :
               q # r => C.i[q] # C.i[r]
        /\ \A c \in CoarseIds : \A q \in Col(c) : C.i[q] \in CoarseIds
        /\ \A c \in CoarseIds : \A t \in CoarseIds \ {c} :
               IF FineEdges(c, t) = {}
               THEN \A q \in Col(c) : C.i[q] # t
               ELSE \E q \in Col(c) :
                        /\ C.i[q] = t
                        /\ C.x[q] = SetSum(graph.x, FineEdges(c, t))

\* coarsen has returned a graph in which a supernode t is the neighbour of
\* two columns: the later column finds in htable[t] the entry the earlier
\* one left there.
C6_Witness ==
    /\ CoarsenReturned
    /\ \E t \in CoarseIds : \E c1, c2 \in CoarseIds \ {t} :
           c1 < c2 /\ FineEdges(c1, t) # {} /\ FineEdges(c2, t) # {}

----------------------------------------------------------------------------
\* Properties of the partition, the assertions and the failure paths.

RECURSIVE Reach(_)
Reach(S) ==
    LET T == S \cup {graph.i[q] : q \in
                 UNION {graph.p[v]..(graph.p[v + 1] - 1) : v \in S}}
    IN  IF T = S THEN S ELSE Reach(T)

\* The input contract of section 6: symmetric, no self-loops, positive edge
\* and vertex weights, a single connected component.
WellFormed ==
    /\ FineSymmetric
    /\ \A v \in Vertices : \A q \in graph.p[v]..(graph.p[v + 1] - 1) :
           graph.i[q] # v /\ graph.x[q] > 0
    /\ \A v \in Vertices : graph.w[v] > 0
    /\ Reach({0}) = Vertices

\* C8: on a well-formed graph, neither assertion of coarsen's
\* doExpensiveChecks block (every coarse vertex has degree > 0; the coarse
\* vertex weights add up to C->W) fires.
C8_ExpensiveChecksPass ==
    (CoarsenReturned /\ options.doExpensiveChecks /\ WellFormed) =>
        asserts \cap {"coarsen:155", "coarsen:159"} = {}

\* The graph of scenario D: four vertices, one isolated, the other three a
\* triangle, unit edge weights.
ScenarioD ==
    /\ graph.n = 4
    /\ \E s \in Vertices :
           /\ degree(graph, s) = 0
           /\ \A v \in Vertices \ {s} : degree(graph, v) = 2
    /\ \A q \in 0..(graph.nz - 1) : graph.x[q] = 1

\* C9: on scenario D, after match() the isolated vertex is self-matched as
\* the leftover singleton and no assertion of the matching routines has
\* fired.
C9_ScenarioD ==
    (MatchReturned /\ ScenarioD) =>
        /\ asserts = {}
        /\ \A s \in Vertices :
               degree(graph, s) = 0 =>
                   /\ getMatch(graph, s) = s
                   /\ graph.matchtype[s] = "Orphan"
                   /\ graph.singleton = s

\* C10: when coarsen has returned NULL, nothing it allocated is still held
\* and the fine graph is as it was on entry; when it has returned C, only
\* C is still held.
C10_FailureReleases ==
    /\ (pc = "coarsened" /\ ret = "NULL") =>
           /\ heap = {}
           /\ C = NULL
           /\ htable = NULL
           /\ graph = G0
    /\ (pc = "coarsened" /\ ret = "C") =>
           /\ heap = {"C"}
           /\ htable = NULL
           /\ graph = G0

\* coarsen has returned NULL because the second allocation, htable, failed
\* after the coarse graph had been created for a matching with a 3-way
\* match.
C10_Witness ==
    /\ pc = "coarsened"
    /\ ret = "NULL"
    /\ nmalloc = 2
    /\ \E v \in Vertices : Cardinality(Chain(v)) = 3

----------------------------------------------------------------------------
\* Properties of QPLinks.

QPLinksReturned == pc = "QPLinks_done"

QPVertices == 0..(graph.n - 1)

\* C11: QPLinks returns false exactly when some x[k] is below 0 or above 1
\* (so it returns true for every x in [0,1]^n), and when it returns false
\* QP->nFreeSet, QP->b and QP->ib hold what they held on entry.
C11_FailsIffOutOfRange ==
    QPLinksReturned =>
        /\ links.ret \in {"true", "false"}
        /\ (links.ret = "false") <=>
               (\E v \in QPVertices : QP.x[v] < 0 \/ QP.x[v] > 2)
        /\ links.ret = "false" =>
               /\ QP.nFreeSet = links.QP0.nFreeSet
               /\ QP.b = links.QP0.b
               /\ QP.ib = links.QP0.ib

\* QPLinks fails on a negative x[1] after it has put vertex 0 into the free
\* set and added its weight to s, with stale values in the output fields.
C11_Witness ==
    /\ QPLinksReturned
    /\ links.ret = "false"
    /\ graph.n = 2
    /\ QP.x[0] = 1
    /\ QP.x[1] = -1
    /\ links.nFreeSet = 1
    /\ links.s = 1
    /\ links.QP0.nFreeSet = 5
    /\ QP.nFreeSet = 5

----------------------------------------------------------------------------
\* Properties of Options::Create.

\* The Options as Options::Create returned them, before the test's sweep has
\* assigned anything.
OptionsCreated == pc = "RunAllTests" /\ test.c = 0 /\ test.i = 0
                  /\ test.j = 0 /\ test.k = 0 /\ test.m = 0

\* C12: the Options that Options::Create returns have guessCutType QP,
\* matchingStrategy HEMDavisPA, coarsenLimit 256, targetSplit 0.5 and
\* tolerance 0.01.
C12_DefaultsAsSpecified ==
    OptionsCreated =>
        /\ options.guessCutType = "GuessQP"
        /\ options.matchingStrategy = "HEMDavisPA"
        /\ options.coarsenLimit = 256
        /\ options.targetSplit = <<1, 2>>
        /\ options.tolerance = <<1, 100>>

----------------------------------------------------------------------------
\* Properties of the sums coarsen stores.

\* The sum of the stored coarse edge weights C.x[0..C.nz-1]: every coarse
\* edge is stored in both directions, so this is the sum over the directed
\* coarse edges.
SumCx == SetSum(C.x, 0..(C.nz - 1))

\* C13: after coarsen, C.X is one half of the sum of the stored coarse edge
\* weights, and C.H = 2 * C.X is the sum over the directed coarse edges.
C13_XIsHalfSum ==
    CoarsenReturned =>
        /\ 2 * C.X = SumCx
        /\ C.H = 2 * C.X
        /\ C.H = SumCx

----------------------------------------------------------------------------
\* Properties of conditionGraph.

ConditionReturned == pc = "conditionGraph_done" /\ cond.ret = "G"

\* The position <<column, row>> of stored entry q of g.
EntryAt(g, q) == <<ColOf(g.p, g.n, q), g.i[q]>>

\* C14: with resetEW = false, the graph conditionGraph returns is symmetric
\* and every edge weight stored in it is positive, whatever the weights of
\* the input were.
C14_ConditionedPositive ==
    ConditionReturned /\ ~cond.resetEW =>
        /\ \A q \in 0..(cond.G.nz - 1) :
               \E m \in 0..(cond.G.nz - 1) :
                   /\ EntryAt(cond.G, m) =
                          <<EntryAt(cond.G, q)[2], EntryAt(cond.G, q)[1]>>
                   /\ cond.G.x[m] = cond.G.x[q]
        /\ \A q \in 0..(cond.G.nz - 1) : cond.G.x[q] > 0

----------------------------------------------------------------------------
\* Properties of matching_HEM.

\* The weight matching_HEM gives stored entry q: the stored one, or 1 when
\* the graph has no edge weights.
HEMWeight(q) == IF graph.x = NULL THEN 1 ELSE graph.x[q]

\* The entries of column v whose neighbour is unmatched.
UnmatchedEntries(v) ==
    {q \in graph.p[v]..(graph.p[v + 1] - 1) : ~isMatched(graph, graph.i[q])}

\* The first entry in storage order among those of maximum weight.
FirstHeaviest(U) ==
    CHOOSE q \in U :
        /\ \A r \in U : HEMWeight(r) <= HEMWeight(q)
        /\ \A r \in U : HEMWeight(r) = HEMWeight(q) => q <= r

\* One pass of matching_HEM's loop, at vertex k.
HEMPass == pc = "matching_HEM" /\ k < graph.n /\ pc' = "matching_HEM"

\* C15: matching_HEM visits the vertices in increasing id order; a vertex k
\* that is still unmatched is matched to its unmatched neighbour of maximum
\* edge weight, the first in storage order on ties, every weight counting as
\* 1 when the graph has no edge weights; k stays unmatched only if it has no
\* unmatched neighbour; a vertex that is already matched is passed over.
C15_HEMHeaviestFirst ==
    [][/\ (pc # "matching_HEM" /\ pc' = "matching_HEM") => k' = 0
       /\ HEMPass =>
            /\ k' = k + 1
            /\ isMatched(graph, k) => graph' = graph
            /\ ~isMatched(graph, k) /\ UnmatchedEntries(k) = {} =>
                   graph' = graph
            /\ ~isMatched(graph, k) /\ UnmatchedEntries(k) # {} =>
                   LET h == graph.i[FirstHeaviest(UnmatchedEntries(k))]
                   IN  /\ getMatch(graph', k) = h
                       /\ getMatch(graph', h) = k
                       /\ \A v \in 0..(graph.n - 1) \ {k, h} :
                              graph'.matching[v] = graph.matching[v]
      ]_vars

\* Vertex 0 of a graph without edge weights had two unmatched neighbours and
\* was matched to the first one stored.
C15_Witness ==
    /\ pc = "matching_HEM"
    /\ k = 1
    /\ graph.x = NULL
    /\ degree(graph, 0) >= 2
    /\ getMatch(graph, 0) = graph.i[graph.p[0]]

----------------------------------------------------------------------------
\* Maximality of the first matching pass.

\* Every vertex is matched or has no unmatched neighbour.
Maximal ==
    \A v \in Vertices :
        graph.matching[v] > 0 \/
        \A q \in graph.p[v]..(graph.p[v + 1] - 1) :
            graph.matching[graph.i[q]] > 0

\* C16: on a symmetric graph the matching is maximal when the loop of
\* matching_HEM, and likewise of matching_Random, has ended; so on entry to
\* matching_PA and matching_DavisPA, which run after matching_HEM, every
\* neighbour of an unmatched vertex is matched and their entry assertions
\* do not fire.
C16_MaximalAfterFirstPass ==
    /\ pc \in {"matching_HEM", "matching_Random"} /\ k = graph.n => Maximal
    /\ pc \in {"matching_PA_entry", "matching_DavisPA_entry",
               "matching_PA", "matching_DavisPA"} /\ k = 0 => Maximal
    /\ asserts \cap {"matching_HEM:409", "matching_Random:138",
                     "matching_PA:163", "matching_DavisPA:301"} = {}

\* matching_HEM has left a vertex with neighbours unmatched and the
\* passive-aggressive pass is about to start.
C16_Witness ==
    /\ pc = "matching_PA_entry"
    /\ \E v \in Vertices : ~isMatched(graph, v) /\ degree(graph, v) >= 2

----------------------------------------------------------------------------
\* Properties of matching_DavisPA.

\* One pass of matching_DavisPA's loop, at vertex k.
DavisPass == pc = "matching_DavisPA" /\ k < graph.n /\ pc' = "matching_DavisPA"

\* degree(v) >= davisBrotherlyThreshold * (nz / n), the threshold taken as
\* the real number it is.
MeetsThreshold(v) ==
    degree(graph, v) * graph.n >= options.davisBrotherlyThreshold * graph.nz

\* C17: matching_DavisPA pairs up the unmatched neighbours of a matched
\* vertex k exactly when the degree of k is at least
\* davisBrotherlyThreshold * (nz / n); a matched vertex of smaller degree is
\* never used as a pivot.
C17_DavisRealThreshold ==
    [][DavisPass =>
          ((graph' # graph) <=>
               /\ isMatched(graph, k)
               /\ MeetsThreshold(k)
               /\ UnmatchedEntries(k) # {})
      ]_vars

----------------------------------------------------------------------------
\* Properties of matching_Cleanup.

\* One pass of matching_Cleanup's loop, at vertex k, and its closing step.
CleanupPass == pc = "matching_Cleanup" /\ k < graph.n
               /\ pc' = "matching_Cleanup"

CleanupEnd == pc = "matching_Cleanup" /\ pc' = "matched"

\* The isolated vertices with an id below v.
IsolatedBelow(v) == {u \in 0..(v - 1) : degree(graph, u) = 0}

MaxOf(S) == CHOOSE u \in S : \A t \in S : t <= u

\* The matching of every vertex outside S is the same before and after.
SameOutside(S) ==
    \A v \in Vertices \ S :
        /\ graph'.matching[v] = graph.matching[v]
        /\ isMatched(graph, v) => graph'.matchmap[v] = graph.matchmap[v]

\* C18: matching_Cleanup leaves no vertex unmatched.  A still-unmatched
\* vertex of degree >= 1 becomes an orphan matched to itself; the isolated
\* vertices are paired two by two in increasing id order (the 2nd with the
\* 1st, the 4th with the 3rd, ...), and when their number is odd the last
\* one is matched to itself; a vertex that is matched already is not
\* touched.
C18_CleanupMatchesAll ==
    [][/\ CleanupPass /\ isMatched(graph, k) => graph' = graph
       /\ CleanupPass /\ ~isMatched(graph, k) /\ degree(graph, k) >= 1 =>
              /\ getMatch(graph', k) = k
              /\ SameOutside({k})
       /\ CleanupPass /\ ~isMatched(graph, k) /\ degree(graph, k) = 0 =>
              IF Cardinality(IsolatedBelow(k)) % 2 = 1
              THEN LET s == MaxOf(IsolatedBelow(k))
                   IN  /\ getMatch(graph', k) = s
                       /\ getMatch(graph', s) = k
                       /\ SameOutside({k, s})
              ELSE /\ ~isMatched(graph', k)
                   /\ SameOutside({})
       /\ CleanupEnd =>
              /\ \A v \in Vertices : isMatched(graph', v)
              /\ IF Cardinality(IsolatedBelow(graph.n)) % 2 = 1
                 THEN LET s == MaxOf(IsolatedBelow(graph.n))
                      IN  /\ ~isMatched(graph, s)
                          /\ getMatch(graph', s) = s
                          /\ SameOutside({s})
                 ELSE SameOutside({})
      ]_vars

\* Three isolated vertices: 1 was paired with 0 and 2, the last, is matched
\* to itself.
C18_Witness ==
    /\ pc = "matched"
    /\ graph.n = 3
    /\ graph.nz = 0
    /\ getMatch(graph, 1) = 0
    /\ getMatch(graph, 0) = 1
    /\ getMatch(graph, 2) = 2

----------------------------------------------------------------------------
\* The free set and the constraint after a successful QPLinks.

QPLinksSucceeded == QPLinksReturned /\ links.ret = "true"

\* The vertices strictly between the bounds: 0 < x[k] < 1.
FreeVertices == {v \in QPVertices : 0 < QP.x[v] /\ QP.x[v] < 2}

\* C19: after a successful QPLinks, FreeSet_status[k] is -1 iff x[k] = 0,
\* +1 iff x[k] = 1 and 0 iff 0 < x[k] < 1; FreeSet_list[0..nFreeSet-1] holds
\* exactly the vertices of status 0, each once, in increasing order, and
\* nFreeSet is their number.
C19_FreeSetBuckets ==
    QPLinksSucceeded =>
        /\ \A v \in QPVertices :
               /\ (QP.FreeSet_status[v] = -1) <=> (QP.x[v] = 0)
               /\ (QP.FreeSet_status[v] = 1) <=> (QP.x[v] = 2)
               /\ (QP.FreeSet_status[v] = 0) <=> (0 < QP.x[v] /\ QP.x[v] < 2)
        /\ QP.nFreeSet = Cardinality(FreeVertices)
        /\ {QP.FreeSet_list[j] : j \in 0..(QP.nFreeSet - 1)} = FreeVertices
        /\ \A j1, j2 \in 0..(QP.nFreeSet - 1) :
               j1 < j2 => QP.FreeSet_list[j1] < QP.FreeSet_list[j2]

\* x = (1, 0.5): vertex 0 is at its upper bound and vertex 1 is the one free
\* vertex, with stale values in the arrays on entry.
C19_Witness ==
    /\ QPLinksSucceeded
    /\ graph.n = 2
    /\ QP.x[0] = 2
    /\ QP.x[1] = 1
    /\ links.QP0.FreeSet_status[0] = 5
    /\ QP.FreeSet_status[0] = 1
    /\ QP.FreeSet_status[1] = 0
    /\ QP.nFreeSet = 1
    /\ QP.FreeSet_list[0] = 1

\* The sum over k of a[k] * x[k], in halves.
RECURSIVE WeightedSum(_)
WeightedSum(v) ==
    IF v < 0 THEN 0 ELSE graph.w[v] * QP.x[v] + WeightedSum(v - 1)

----------------------------------------------------------------------------
\* The gradient after a successful QPLinks.

\* The stored entries (k, j) whose row is j.
EntriesInto(j) == {q \in 0..(graph.nz - 1) : graph.i[q] = j}

\* (0.5 - x[k]) * w for stored entry q = (k, j, w), in halves.
EdgeTerm == [q \in 0..(graph.nz - 1) |->
                (1 - QP.x[ColOf(graph.p, graph.n, q)]) * graph.x[q]]

\* C21: after a successful QPLinks, whatever the gradient array held on
\* entry, gradient[j] = (0.5 - x[j]) * D[j] plus the sum over every stored
\* edge (k, j) of weight w of (0.5 - x[k]) * w.
C21_GradientFromScratch ==
    QPLinksSucceeded =>
        \A j \in QPVertices :
            QP.gradient[j] =
                (1 - QP.x[j]) * QP.D[j] + SetSum(EdgeTerm, EntriesInto(j))

\* An edge of weight 2 between vertices at x = 0 and x = 1, the gradient
\* array holding stale values on entry: gradient[0] = 0.5 * 1 - 0.5 * 2.
C21_Witness ==
    /\ QPLinksSucceeded
    /\ graph.n = 2
    /\ graph.nz = 2
    /\ graph.x[0] = 2
    /\ QP.x[0] = 0
    /\ QP.x[1] = 2
    /\ links.QP0.gradient[0] = 5
    /\ QP.gradient[0] = -1
    /\ QP.gradient[1] = 0

----------------------------------------------------------------------------
\* Stability of the matching while match() runs.

\* The vertices a step matches: unmatched before it, matched after it.
NewlyMatched == {v \in Vertices : graph.matching[v] = 0
                                  /\ graph'.matching[v] # 0}

\* C22: with doCommunityMatching false, on a symmetric graph without
\* self-loops or duplicate edges, match() only ever matches vertices that
\* are unmatched at that moment: once matching[v] is nonzero, matching[v]
\* and matchmap[v] never change again, and every createMatch call adds
\* exactly one to cn (the vertices a step matches form cn' - cn supernodes,
\* a pair or a self-match each, numbered cn, ..., cn' - 1).
C22_MatchedStaysMatched ==
    [][(~options.doCommunityMatching /\ pc # "matched" /\ graph' # graph) =>
          /\ \A v \in Vertices :
                 graph.matching[v] # 0 =>
                     /\ graph'.matching[v] = graph.matching[v]
                     /\ graph'.matchmap[v] = graph.matchmap[v]
          /\ graph'.cn >= graph.cn
          /\ {graph'.matchmap[v] : v \in NewlyMatched} =
                 graph.cn..(graph'.cn - 1)
          /\ \A v \in NewlyMatched :
                 /\ getMatch(graph', v) \in NewlyMatched
                 /\ getMatch(graph', getMatch(graph', v)) = v
                 /\ \A u \in NewlyMatched :
                        (graph'.matchmap[u] = graph'.matchmap[v]) <=>
                            (u = v \/ u = getMatch(graph', v))
      ]_vars

\* matching_PA has paired two unmatched neighbours of a matched vertex as
\* brothers, next to the pair matching_HEM made.
C22_Witness ==
    /\ ~options.doCommunityMatching
    /\ pc = "matching_PA"
    /\ graph.cn = 2
    /\ \E v \in Vertices :
           /\ isMatched(graph, v)
           /\ getMatch(graph, v) # v
           /\ graph.matchtype[v] = "Brotherly"
    /\ \E v \in Vertices :
           /\ isMatched(graph, v)
           /\ graph.matchtype[v] = "Standard"

----------------------------------------------------------------------------
\* Accesses of conditionGraph after the graph passed in is freed.

\* C23: conditionGraph never reads or writes the p and x arrays of the graph
\* passed in after it has destroyed and freed that graph; every access made
\* after the replacement goes to the newly built graph that is returned.
C23_NoAccessAfterFree ==
    (pc \in {"conditionGraph_check", "conditionGraph_done"}
     /\ ~cond.live)
        => cond.freed = {}

====
